---- MODULE Spec2Model ----
(***************************************************************************)
(* Model of code/MODIS_monthly_aggregation_code.py: the monthly            *)
(* aggregation of the 16-day and 8-day MODIS station time series.          *)
(*                                                                         *)
(* Encoding of table cells.  A cell is <<>> when it is empty (pandas NaN / *)
(* NaT) and <<v>> when it holds v.  Measured values are exact rationals    *)
(* [n, d] counted in ticks of 0.0001 (n/d ticks, d > 0, lowest terms), so  *)
(* 0.40 is [4000, 1], 0.12346 is [6173, 5], 0.00015 is [3, 2] and -9999 is *)
(* [-99990000, 1].                                                         *)
(* A date cell of an input file is the tuple <<y, m, d>> of the fields of  *)
(* its ISO text; a parsed date is the record [year, month, day].           *)
(***************************************************************************)
EXTENDS Integers, Sequences, FiniteSets, TLC

VARIABLES pc, dirState, file16, file8, outFile, stdout, error,
          df_16, df_8, monthly_16, monthly_8, df_monthly, effects

vars == <<pc, dirState, file16, file8, outFile, stdout, error,
          df_16, df_8, monthly_16, monthly_8, df_monthly, effects>>

(***************************************************************************)
(* Bounds of the explored inputs.                                          *)
(***************************************************************************)
MaxRows == 2

(***************************************************************************)
(* Program constants.                                                      *)
(***************************************************************************)
station_name == "ALGER_DAR_EL_BEIDA_AG"
output_dir == "Monthly_data"
output_file == <<output_dir, "MODIS_Monthly_", station_name, ".xlsx">>
vars_16 == <<"NDVI", "EVI", "VCI">>
vars_8 == <<"LAI", "FAPAR", "LST">>
key_cols == <<"name", "year", "month">>
Sentinel == [n |-> -99990000, d |-> 1]

NaN == <<>>
Some(v) == <<v>>
IsNA(c) == c = <<>>
Val(c) == c[1]
Range(s) == {s[i] : i \in 1..Len(s)}

(***************************************************************************)
(* Exact arithmetic on the measured values.                                *)
(***************************************************************************)
Abs(x) == IF x < 0 THEN -x ELSE x

RECURSIVE GCD(_, _)
GCD(a, b) == IF b = 0 THEN a ELSE GCD(b, a % b)

Rat(n, d) == LET g == GCD(Abs(n), d) IN [n |-> n \div g, d |-> d \div g]

\* a + b over the least common denominator.
Add(a, b) ==
    LET l == (a.d \div GCD(a.d, b.d)) * b.d
    IN Rat(a.n * (l \div a.d) + b.n * (l \div b.d), l)

RECURSIVE SumSeq(_)
SumSeq(s) == IF s = <<>> THEN [n |-> 0, d |-> 1]
             ELSE Add(s[1], SumSeq(Tail(s)))

\* Series.mean() of a group: NaN cells are skipped (skipna), every other
\* cell is averaged in; a group without any non-NaN cell gives NaN.
mean_nosplit(cells) ==
    LET present == SelectSeq(cells, LAMBDA c : ~IsNA(c))
        nums == [i \in 1..Len(present) |-> Val(present[i])]
    IN IF present = <<>> THEN NaN ELSE Some(SumSeq(nums))

mean(cells) ==
    LET present == SelectSeq(cells, LAMBDA c : ~IsNA(c))
        nums == [i \in 1..Len(present) |-> Val(present[i])]
        s == SumSeq(nums)
    IN IF present = <<>> THEN NaN
       ELSE Some(Rat(s.n, s.d * Len(present)))

\* Series.round(4) computes rint(x * 10**4) / 10**4 on the binary double x.
\* A value that is no decimal half-tick goes to the nearest tick.  On a
\* decimal half-tick (n/d ticks with d = 2) the double x * 10**4 lies on
\* either side of the half, as the binary representation of x falls
\* (0.00015 gives 0.0001, 1.00005 gives 1.0001), so both neighbouring
\* ticks are outcomes; up tells which one the double arithmetic yields.
IsHalfTick(c) == ~IsNA(c) /\ 2 * (Val(c).n - (Val(c).n \div Val(c).d) * Val(c).d) = Val(c).d

rint(n, d, up) ==
    LET q == n \div d
        r == n - q * d
    IN IF 2 * r < d THEN q
       ELSE IF 2 * r > d THEN q + 1
       ELSE IF up THEN q + 1 ELSE q

\* Series.round(4) on one cell: NaN stays NaN.
round_keep(c, up) == c

round(c, up) == IF IsNA(c) THEN NaN
                ELSE Some([n |-> rint(Val(c).n, Val(c).d, up), d |-> 1])

(***************************************************************************)
(* Calendar dates.                                                         *)
(***************************************************************************)
IsLeap(y) == (y % 4 = 0 /\ y % 100 # 0) \/ y % 400 = 0

DaysIn(y, m) == IF m = 2 THEN (IF IsLeap(y) THEN 29 ELSE 28)
                ELSE IF m \in {4, 6, 9, 11} THEN 30 ELSE 31

ValidYmd(y, m, d) == /\ y \in 1000..9999
                     /\ m \in 1..12
                     /\ d \in 1..DaysIn(y, m)

\* pd.to_datetime on one cell of the input date column: an empty cell is
\* NaT, a cell that is no calendar date raises.
to_datetime_coerce(c) == TRUE

to_datetime_ok(c) == IsNA(c) \/ ValidYmd(c[1], c[2], c[3])

to_datetime(c) == IF IsNA(c) THEN NaN
                  ELSE Some([year |-> c[1], month |-> c[2], day |-> c[3]])

\* pd.to_datetime on the frame (year, month, day = 1): the three columns
\* are packed into year*10000 + month*100 + day, which is then parsed with
\* the format %Y%m%d.
assemble_value_mid(y, m) == y * 10000 + m * 100 + 15

assemble_value(y, m) == y * 10000 + m * 100 + 1

assemble_ok(y, m) ==
    LET v == assemble_value(y, m)
    IN ValidYmd(v \div 10000, (v \div 100) % 100, v % 100)

assemble_date(y, m) ==
    LET v == assemble_value(y, m)
    IN Some([year |-> v \div 10000, month |-> (v \div 100) % 100,
             day |-> v % 100])

(***************************************************************************)
(* Data frames: [cols |-> set of column names, rows |-> sequence of        *)
(* records].                                                               *)
(***************************************************************************)
NoFrame == [cols |-> {}, rows |-> <<>>, name_dtype |-> "object"]

\* pd.read_csv infers the dtype of a column from its cells: a name column
\* with at least one row whose cells are all empty is float64 (all NaN),
\* any other is object; so is every column of a table without rows.
\* (year and month are int64 or float64, numeric either way.)
name_dtype(table) ==
    IF /\ "name" \in table.cols
       /\ table.rows # <<>>
       /\ \A i \in 1..Len(table.rows) : IsNA(table.rows[i].name)
    THEN "float64" ELSE "object"

read_csv(table) ==
    [cols |-> table.cols, rows |-> table.rows,
     name_dtype |-> name_dtype(table)]

\* The grouping key of a row: its (name, year, month) cells.
KeyOf_year(r) == [name |-> r.name, year |-> r.year, month |-> Some(1)]

KeyOf(r) == [name |-> r.name, year |-> r.year, month |-> r.month]

\* groupby(dropna=True): a row with an empty key cell is in no group.
has_key(r) == ~IsNA(r.name) /\ ~IsNA(r.year) /\ ~IsNA(r.month)

\* Sort order of the keys (groupby sort=True, merge how='outer'):
\* lexicographic on (name, year, month); station names in string order.
name_order == <<"X", "Y">>
NameRank(n) == CHOOSE i \in 1..Len(name_order) : name_order[i] = n

KeyLess(a, b) ==
    LET an == NameRank(Val(a.name))
        bn == NameRank(Val(b.name))
    IN \/ an < bn
       \/ an = bn /\ Val(a.year) < Val(b.year)
       \/ an = bn /\ Val(a.year) = Val(b.year) /\ Val(a.month) < Val(b.month)

RECURSIVE SortKeys(_)
SortKeys(S) ==
    IF S = {} THEN <<>>
    ELSE LET k == CHOOSE x \in S : \A o \in S \ {x} : KeyLess(x, o)
         IN <<k>> \o SortKeys(S \ {k})

RECURSIVE Flatten(_)
Flatten(ss) == IF ss = <<>> THEN <<>> ELSE ss[1] \o Flatten(Tail(ss))

Column(rows, v) == [i \in 1..Len(rows) |-> rows[i][v]]
Part(r, vs) == [v \in Range(vs) |-> r[v]]
NaPart(vs) == [v \in Range(vs) |-> NaN]

\* df.groupby(['name','year','month'], as_index=False)[vs].mean()
groupby_mean(rows, vs) ==
    LET kept == SelectSeq(rows, has_key)
        keys == SortKeys({KeyOf(r) : r \in Range(kept)})
        group(k) == SelectSeq(kept, LAMBDA r : KeyOf(r) = k)
        agg(k) == k @@ [v \in Range(vs) |-> mean(Column(group(k), v))]
    IN [i \in 1..Len(keys) |-> agg(keys[i])]

groupby_ok(frame, vs) == Range(key_cols) \cup Range(vs) \subseteq frame.cols

\* The rows pd.merge produces for one key: every pairing of a left row and
\* a right row of that key; a side without the key contributes NaN cells.
JoinKey(k, ls, rs) ==
    IF ls = <<>>
    THEN [j \in 1..Len(rs) |-> k @@ NaPart(vars_16) @@ Part(rs[j], vars_8)]
    ELSE IF rs = <<>>
    THEN [i \in 1..Len(ls) |-> k @@ Part(ls[i], vars_16) @@ NaPart(vars_8)]
    ELSE [p \in 1..(Len(ls) * Len(rs)) |->
            k @@ Part(ls[((p - 1) \div Len(rs)) + 1], vars_16)
              @@ Part(rs[((p - 1) % Len(rs)) + 1], vars_8)]

WithKey(rows, k) == SelectSeq(rows, LAMBDA r : KeyOf(r) = k)

merge_inner(left, right) ==
    LET keys == SortKeys({KeyOf(r) : r \in Range(left)}
                         \cap {KeyOf(r) : r \in Range(right)})
    IN Flatten([i \in 1..Len(keys) |->
                  JoinKey(keys[i], WithKey(left, keys[i]),
                          WithKey(right, keys[i]))])

merge_concat(left, right) ==
    [i \in 1..Len(left) |->
        KeyOf(left[i]) @@ Part(left[i], vars_16) @@ NaPart(vars_8)]
    \o [j \in 1..Len(right) |->
        KeyOf(right[j]) @@ NaPart(vars_16) @@ Part(right[j], vars_8)]

\* pd.merge checks the dtypes of each pair of key columns unless exactly one
\* side has no rows: an object column against a numeric one raises
\* ValueError.  year and month are numeric on both sides; name is object
\* or float64 as read, and the grouping keeps the dtype of its key columns.
merge_ok(left, right) ==
    \/ (left.rows = <<>>) # (right.rows = <<>>)
    \/ left.name_dtype = right.name_dtype

\* pd.merge(monthly_16, monthly_8, on=['name','year','month'], how='outer')
merge(left, right) ==
    LET keys == SortKeys({KeyOf(r) : r \in Range(left) \cup Range(right)})
    IN Flatten([i \in 1..Len(keys) |->
                  JoinKey(keys[i], WithKey(left, keys[i]),
                          WithKey(right, keys[i]))])

\* df['date'] = pd.to_datetime(df['date'])
parse_dates(rows) ==
    [i \in 1..Len(rows) |-> [rows[i] EXCEPT !.date = to_datetime(@)]]

parse_dates_ok(frame) ==
    /\ "date" \in frame.cols
    /\ \A i \in 1..Len(frame.rows) : to_datetime_ok(frame.rows[i].date)

\* df_monthly['date'] = pd.to_datetime(df_monthly[['year','month']].assign(day=1))
month_start_ok(rows) ==
    \A i \in 1..Len(rows) : assemble_ok(Val(rows[i].year), Val(rows[i].month))

month_start(rows) ==
    [i \in 1..Len(rows) |->
        rows[i] @@ [date |-> assemble_date(Val(rows[i].year),
                                           Val(rows[i].month))]]

\* for col in vars_16 + vars_8: df_monthly[col] = df_monthly[col].round(4)
\* ups: the cells <<row, column>> whose half-tick the doubles round upwards.
HalfTickCells(rows) ==
    {ic \in (1..Len(rows)) \X Range(vars_16 \o vars_8) :
        IsHalfTick(rows[ic[1]][ic[2]])}

round_columns(rows, ups) ==
    [i \in 1..Len(rows) |->
        [c \in DOMAIN rows[i] |->
            IF c \in Range(vars_16 \o vars_8)
            THEN round(rows[i][c], <<i, c>> \in ups)
            ELSE rows[i][c]]]

\* os.makedirs(output_dir, exist_ok=True) on a path that is absent, a
\* directory (writable or read-only) or a regular file.
makedirs_fails(d) == d = "file"
makedirs_skip(d) == d
makedirs(d) == IF d = "absent" THEN "dir" ELSE d

\* DataFrame.to_excel needs a writable directory to create the file in.
to_excel_fails(d) == d # "dir"

output_columns == key_cols \o vars_16 \o vars_8 \o <<"date">>

(***************************************************************************)
(* The explored input files.                                               *)
(***************************************************************************)
V(n, d) == Some(Rat(n, d))
SentinelCell == Some(Sentinel)

Row16(name, year, month, date, ndvi, evi, vci) ==
    [name |-> name, year |-> year, month |-> month, date |-> date,
     NDVI |-> ndvi, EVI |-> evi, VCI |-> vci]

Row8(name, year, month, date, lai, fapar, lst) ==
    [name |-> name, year |-> year, month |-> month, date |-> date,
     LAI |-> lai, FAPAR |-> fapar, LST |-> lst]

Rows16 ==
    { Row16(Some("X"), Some(2020), Some(2), <<2020, 2, 2>>,
            V(4000, 1), V(12346, 10), NaN),
      Row16(Some("X"), Some(2020), Some(2), <<2020, 2, 18>>,
            V(6000, 1), SentinelCell, NaN),
      Row16(Some("X"), Some(2019), Some(12), <<2020, 1, 1>>,
            SentinelCell, V(4000, 1), SentinelCell),
      Row16(NaN, Some(2020), Some(2), <<2020, 2, 2>>,
            V(6000, 1), V(6000, 1), V(6000, 1)),
      Row16(Some("X"), Some(2020), Some(13), <<2020, 2, 2>>,
            V(4000, 1), V(4000, 1), V(4000, 1)),
      Row16(Some("X"), Some(2020), Some(2), <<2020, 2, 30>>,
            V(4000, 1), V(4000, 1), V(4000, 1)) }

Rows8 ==
    { Row8(Some("X"), Some(2020), Some(2), <<2020, 2, 10>>,
           NaN, V(12346, 10), V(3000000, 1)),
      Row8(Some("X"), Some(2020), Some(2), NaN,
           SentinelCell, V(4000, 1), SentinelCell),
      Row8(Some("Y"), Some(2020), Some(4), <<2020, 3, 30>>,
           V(3, 2), V(6000, 1), V(3000000, 1)),
      Row8(Some("X"), NaN, Some(2), <<2020, 2, 10>>,
           V(4000, 1), V(4000, 1), V(3000000, 1)),
      Row8(Some("X"), Some(2020), Some(2), <<2021, 2, 29>>,
           V(4000, 1), V(4000, 1), V(3000000, 1)) }

cols_16 == {"name", "date", "year", "month"} \cup Range(vars_16)
cols_8 == {"name", "date", "year", "month"} \cup Range(vars_8)

SeqsUpTo(S, n) == UNION {[1..k -> S] : k \in 1..n}

Restrict(rows, cols) ==
    [i \in 1..Len(rows) |-> [c \in cols |-> rows[i][c]]]

\* A file is <<>> when it does not exist, else <<table>>.  Files that lack
\* an expected column are explored with one row.
Files(rowset, cols, lacking) ==
    {<<>>}
    \cup {Some([cols |-> cols, rows |-> t]) : t \in SeqsUpTo(rowset, MaxRows)}
    \cup {Some([cols |-> cols \ {c}, rows |-> Restrict(<<r>>, cols \ {c})]) :
             c \in lacking, r \in rowset}

Files16 == Files(Rows16, cols_16, {"date", "NDVI"})
Files8 == Files(Rows8, cols_8, {"date", "month"})
DirStates == {"absent", "dir", "readonly", "file"}

Init ==
    /\ pc = "makedirs"
    /\ dirState \in DirStates
    /\ file16 \in Files16
    /\ file8 \in Files8
    /\ outFile = <<>>
    /\ stdout = <<>>
    /\ error = ""
    /\ df_16 = NoFrame
    /\ df_8 = NoFrame
    /\ monthly_16 = [name_dtype |-> "object", rows |-> <<>>]
    /\ monthly_8 = [name_dtype |-> "object", rows |-> <<>>]
    /\ df_monthly = <<>>
    /\ effects = <<>>

\* An uncaught exception ends the run.
Raise(e) == /\ pc' = "failed"
            /\ error' = e

Goto(l) == /\ pc' = l
           /\ error' = error

\* line 38
MakeDirs ==
    /\ pc = "makedirs"
    /\ UNCHANGED <<file16, file8, outFile, stdout, df_16, df_8,
                   monthly_16, monthly_8, df_monthly>>
    /\ IF makedirs_fails(dirState)
       THEN Raise("FileExistsError") /\ UNCHANGED <<dirState, effects>>
       ELSE /\ Goto("read_16")
            /\ dirState' = makedirs(dirState)
            /\ effects' = IF dirState' # dirState
                          THEN Append(effects, "mkdir") ELSE effects

\* line 43
ReadCsv16 ==
    /\ pc = "read_16"
    /\ UNCHANGED <<dirState, file16, file8, outFile, stdout, df_8,
                   monthly_16, monthly_8, df_monthly>>
    /\ IF IsNA(file16)
       THEN Raise("FileNotFoundError") /\ UNCHANGED <<df_16, effects>>
       ELSE /\ Goto("read_8")
            /\ df_16' = read_csv(Val(file16))
            /\ effects' = Append(effects, "read_16")

\* line 44
ReadCsv8 ==
    /\ pc = "read_8"
    /\ UNCHANGED <<dirState, file16, file8, outFile, stdout, df_16,
                   monthly_16, monthly_8, df_monthly>>
    /\ IF IsNA(file8)
       THEN Raise("FileNotFoundError") /\ UNCHANGED <<df_8, effects>>
       ELSE /\ Goto("date_16")
            /\ df_8' = read_csv(Val(file8))
            /\ effects' = Append(effects, "read_8")

\* line 47
ParseDate16 ==
    /\ pc = "date_16"
    /\ UNCHANGED <<dirState, file16, file8, outFile, stdout, df_8,
                   monthly_16, monthly_8, df_monthly, effects>>
    /\ IF "date" \notin df_16.cols
       THEN Raise("KeyError") /\ UNCHANGED df_16
       ELSE IF ~parse_dates_ok(df_16)
       THEN Raise("ValueError") /\ UNCHANGED df_16
       ELSE /\ Goto("date_8")
            /\ df_16' = [df_16 EXCEPT !.rows = parse_dates(@)]

\* line 48
ParseDate8 ==
    /\ pc = "date_8"
    /\ UNCHANGED <<dirState, file16, file8, outFile, stdout, df_16,
                   monthly_16, monthly_8, df_monthly, effects>>
    /\ IF "date" \notin df_8.cols
       THEN Raise("KeyError") /\ UNCHANGED df_8
       ELSE IF ~parse_dates_ok(df_8)
       THEN Raise("ValueError") /\ UNCHANGED df_8
       ELSE /\ Goto("agg_16")
            /\ df_8' = [df_8 EXCEPT !.rows = parse_dates(@)]

\* lines 56-60
Aggregate16 ==
    /\ pc = "agg_16"
    /\ UNCHANGED <<dirState, file16, file8, outFile, stdout, df_16, df_8,
                   monthly_8, df_monthly>>
    /\ IF ~groupby_ok(df_16, vars_16)
       THEN Raise("KeyError") /\ UNCHANGED <<monthly_16, effects>>
       ELSE /\ Goto("agg_8")
            /\ monthly_16' = [name_dtype |-> df_16.name_dtype,
                            rows |-> groupby_mean(df_16.rows, vars_16)]
            /\ effects' = Append(effects, "agg_16")

\* lines 62-66
Aggregate8 ==
    /\ pc = "agg_8"
    /\ UNCHANGED <<dirState, file16, file8, outFile, stdout, df_16, df_8,
                   monthly_16, df_monthly>>
    /\ IF ~groupby_ok(df_8, vars_8)
       THEN Raise("KeyError") /\ UNCHANGED <<monthly_8, effects>>
       ELSE /\ Goto("merge")
            /\ monthly_8' = [name_dtype |-> df_8.name_dtype,
                           rows |-> groupby_mean(df_8.rows, vars_8)]
            /\ effects' = Append(effects, "agg_8")

\* lines 71-76
Merge ==
    /\ pc = "merge"
    /\ UNCHANGED <<dirState, file16, file8, outFile, stdout, df_16, df_8,
                   monthly_16, monthly_8, effects>>
    /\ IF ~merge_ok(monthly_16, monthly_8)
       THEN Raise("ValueError") /\ UNCHANGED df_monthly
       ELSE /\ Goto("date")
            /\ df_monthly' = merge(monthly_16.rows, monthly_8.rows)

\* lines 79-81
MonthStart ==
    /\ pc = "date"
    /\ UNCHANGED <<dirState, file16, file8, outFile, stdout, df_16, df_8,
                   monthly_16, monthly_8, effects>>
    /\ IF ~month_start_ok(df_monthly)
       THEN Raise("ValueError") /\ UNCHANGED df_monthly
       ELSE /\ Goto("round")
            /\ df_monthly' = month_start(df_monthly)

\* lines 84-85
Round ==
    /\ pc = "round"
    /\ UNCHANGED <<dirState, file16, file8, outFile, stdout, df_16, df_8,
                   monthly_16, monthly_8, effects>>
    /\ Goto("export")
    /\ \E ups \in SUBSET HalfTickCells(df_monthly) :
          df_monthly' = round_columns(df_monthly, ups)

\* lines 90-95
Export ==
    /\ pc = "export"
    /\ UNCHANGED <<dirState, file16, file8, stdout, df_16, df_8,
                   monthly_16, monthly_8, df_monthly>>
    /\ IF to_excel_fails(dirState)
       THEN Raise("PermissionError") /\ UNCHANGED <<outFile, effects>>
       ELSE /\ Goto("print")
            /\ outFile' = Some([path |-> output_file,
                                cols |-> output_columns,
                                rows |-> df_monthly])
            /\ effects' = Append(effects, "write")

\* lines 97-98
PrintDone ==
    /\ pc = "print"
    /\ UNCHANGED <<dirState, file16, file8, outFile, df_16, df_8,
                   monthly_16, monthly_8, df_monthly>>
    /\ Goto("done")
    /\ stdout' = <<[text |-> "Monthly MODIS aggregation successfully completed",
                    arg |-> <<>>],
                   [text |-> "Monthly MODIS dataset exported to: ",
                    arg |-> output_file]>>
    /\ effects' = Append(effects, "print")

Next == \/ MakeDirs
        \/ ReadCsv16
        \/ ReadCsv8
        \/ ParseDate16
        \/ ParseDate8
        \/ Aggregate16
        \/ Aggregate8
        \/ Merge
        \/ MonthStart
        \/ Round
        \/ Export
        \/ PrintDone

Spec == Init /\ [][Next]_vars

TypeOK == pc \in {"makedirs", "read_16", "read_8", "date_16", "date_8",
                  "agg_16", "agg_8", "merge", "date", "round", "export",
                  "print", "done", "failed"}

(***************************************************************************)
(* Vocabulary of the properties.                                           *)
(***************************************************************************)
KeyCells(r) == <<r.name, r.year, r.month>>
KeyPresent(k) == ~IsNA(k[1]) /\ ~IsNA(k[2]) /\ ~IsNA(k[3])
KeySet(rows) == {KeyCells(rows[i]) : i \in 1..Len(rows)}
UniqueKeys(rows) ==
    \A i, j \in 1..Len(rows) : i # j => KeyCells(rows[i]) # KeyCells(rows[j])

InputRows(file) == IF IsNA(file) THEN <<>> ELSE Val(file).rows
Done == pc = "done"
Happened(e) == e \in Range(effects)
Pos(e) == CHOOSE i \in 1..Len(effects) : effects[i] = e
Before(a, b) == Happened(b) => Happened(a) /\ Pos(a) < Pos(b)
Count(e) == Cardinality({i \in 1..Len(effects) : effects[i] = e})

\* The cells of variable v in the rows of key k.
Readings(rows, k, v) ==
    LET g == SelectSeq(rows, LAMBDA r : KeyCells(r) = k)
    IN [i \in 1..Len(g) |-> g[i][v]]
Recorded(cells) == SelectSeq(cells, LAMBDA c : ~IsNA(c))
Valid(cells) == SelectSeq(cells, LAMBDA c : ~IsNA(c) /\ c # SentinelCell)

\* The arithmetic mean of a sequence of non-empty cells; NaN when empty.
ArithMean(cells) ==
    LET nums == [i \in 1..Len(cells) |-> Val(cells[i])]
        s == SumSeq(nums)
    IN IF cells = <<>> THEN NaN ELSE Some(Rat(s.n, s.d * Len(cells)))

\* Cell c is a whole number of ticks, i.e. a multiple of 0.0001.
Multiple4(c) == Val(c).d = 1
\* Cell c is x to 4 decimal places: a multiple of 0.0001 within half a tick.
Nearest4(c, x) ==
    IF IsNA(x) THEN IsNA(c)
    ELSE /\ ~IsNA(c)
         /\ Multiple4(c)
         /\ 2 * Abs(Val(c).n * Val(x).d - Val(x).n) <= Val(x).d
MonthStartOf(r) == Some([year |-> Val(r.year), month |-> Val(r.month),
                         day |-> 1])
OutRows == Val(outFile).rows
AllVars == Range(vars_16) \cup Range(vars_8)
RowOfKey(rows, k) == rows[CHOOSE i \in 1..Len(rows) : KeyCells(rows[i]) = k]

(***************************************************************************)
(* C1: for every (name, year, month) group and every variable of either    *)
(* table, the monthly value produced by the aggregation is the arithmetic  *)
(* mean of exactly the valid readings of the group, readings equal to the  *)
(* sentinel -9999 being treated as absent.                                 *)
(***************************************************************************)
C1_MeanOfValidReadings ==
    /\ Happened("agg_16") =>
         \A i \in 1..Len(monthly_16.rows) : \A v \in Range(vars_16) :
            monthly_16.rows[i][v] =
              ArithMean(Valid(Readings(df_16.rows, KeyCells(monthly_16.rows[i]), v)))
    /\ Happened("agg_8") =>
         \A i \in 1..Len(monthly_8.rows) : \A v \in Range(vars_8) :
            monthly_8.rows[i][v] =
              ArithMean(Valid(Readings(df_8.rows, KeyCells(monthly_8.rows[i]), v)))

AllSentinel(cells) == /\ cells # <<>>
                      /\ \A i \in 1..Len(cells) : cells[i] = SentinelCell

(***************************************************************************)
(* C2: when every reading of a variable in a group is the sentinel -9999,  *)
(* the output value of that variable for that month is missing (neither    *)
(* -9999 nor 0).                                                           *)
(***************************************************************************)
C2_AllSentinelIsMissing ==
    Done =>
      \A i \in 1..Len(OutRows) :
        /\ \A v \in Range(vars_16) :
             AllSentinel(Readings(InputRows(file16), KeyCells(OutRows[i]), v))
               => IsNA(OutRows[i][v])
        /\ \A v \in Range(vars_8) :
             AllSentinel(Readings(InputRows(file8), KeyCells(OutRows[i]), v))
               => IsNA(OutRows[i][v])

(***************************************************************************)
(* C3: no two rows of the written output share the key (name, year,        *)
(* month); the key is unique in each monthly aggregate and stays unique    *)
(* after the outer join.                                                   *)
(***************************************************************************)
C3_KeyUnique ==
    /\ UniqueKeys(monthly_16.rows)
    /\ UniqueKeys(monthly_8.rows)
    /\ UniqueKeys(df_monthly)
    /\ ~IsNA(outFile) => UniqueKeys(OutRows)

C3_Witness ==
    /\ Done
    /\ Len(InputRows(file16)) >= 2
    /\ \E k \in KeySet(monthly_16.rows) \cap KeySet(monthly_8.rows) :
          Len(Readings(InputRows(file16), k, "NDVI")) >= 2
    /\ Len(OutRows) >= 1

OnlyIn16 == {k \in KeySet(InputRows(file16)) \ KeySet(InputRows(file8)) :
                KeyPresent(k)}
OnlyIn8 == {k \in KeySet(InputRows(file8)) \ KeySet(InputRows(file16)) :
               KeyPresent(k)}

(***************************************************************************)
(* C4: a key that occurs in only one of the two input tables has a row in  *)
(* the output in which every variable of the other table is missing, while *)
(* the variables of the table that has the key carry that table's monthly  *)
(* means (to 4 decimal places).                                            *)
(***************************************************************************)
C4_OneSidedKey ==
    Done =>
      /\ \A k \in OnlyIn16 :
           /\ k \in KeySet(OutRows)
           /\ \A v \in Range(vars_8) : IsNA(RowOfKey(OutRows, k)[v])
           /\ \A v \in Range(vars_16) :
                Nearest4(RowOfKey(OutRows, k)[v], RowOfKey(monthly_16.rows, k)[v])
      /\ \A k \in OnlyIn8 :
           /\ k \in KeySet(OutRows)
           /\ \A v \in Range(vars_16) : IsNA(RowOfKey(OutRows, k)[v])
           /\ \A v \in Range(vars_8) :
                Nearest4(RowOfKey(OutRows, k)[v], RowOfKey(monthly_8.rows, k)[v])

C4_Witness ==
    /\ Done
    /\ \E k \in OnlyIn16 : ~IsNA(RowOfKey(OutRows, k).EVI)
    /\ \E k \in OnlyIn8 : ~IsNA(RowOfKey(OutRows, k).LST)

(***************************************************************************)
(* C5: in every row of the output the date column is day 1 of the row's    *)
(* own (year, month); it comes from the key columns, never from the date   *)
(* column of the input rows.                                               *)
(***************************************************************************)
C5_DateIsMonthStart ==
    /\ pc \in {"round", "export", "print", "done"} =>
         \A i \in 1..Len(df_monthly) :
            df_monthly[i].date = MonthStartOf(df_monthly[i])
    /\ ~IsNA(outFile) =>
         \A i \in 1..Len(OutRows) : OutRows[i].date = MonthStartOf(OutRows[i])

C5_Witness ==
    /\ Done
    /\ \E i \in 1..Len(OutRows) : \E j \in 1..Len(InputRows(file16)) :
          LET r == InputRows(file16)[j]
          IN /\ KeyCells(r) = KeyCells(OutRows[i])
             /\ ~IsNA(r.date)
             /\ r.date[2] # Val(r.month)

FileMissing == IsNA(file16) \/ IsNA(file8)
ColumnAbsent ==
    \/ ~IsNA(file16) /\ ~(cols_16 \subseteq Val(file16).cols)
    \/ ~IsNA(file8) /\ ~(cols_8 \subseteq Val(file8).cols)
BadDateIn(file) ==
    /\ ~IsNA(file)
    /\ "date" \in Val(file).cols
    /\ \E i \in 1..Len(Val(file).rows) :
          LET c == Val(file).rows[i].date
          IN ~IsNA(c) /\ ~ValidYmd(c[1], c[2], c[3])
DateUnparseable == BadDateIn(file16) \/ BadDateIn(file8)

(***************************************************************************)
(* C6: failures are fatal and neither retried nor swallowed: when an input *)
(* file is missing, an expected column is absent or a date value cannot be *)
(* parsed, the run stops at that step, no spreadsheet is written and no    *)
(* completion message is emitted.                                          *)
(***************************************************************************)
C6_FailuresFatal ==
    /\ (FileMissing \/ ColumnAbsent \/ DateUnparseable) =>
         /\ pc \in {"makedirs", "read_16", "read_8", "date_16", "date_8",
                    "agg_16", "agg_8", "failed"}
         /\ IsNA(outFile)
         /\ stdout = <<>>
    /\ IsNA(file16) => pc \in {"makedirs", "read_16", "failed"}
    /\ IsNA(file8) => pc \in {"makedirs", "read_16", "read_8", "failed"}
    /\ pc = "failed" =>
         /\ error # ""
         /\ IsNA(outFile)
         /\ stdout = <<>>
         /\ ~Happened("write")
         /\ ~Happened("print")

C6_Witness ==
    /\ pc = "failed"
    /\ error = "ValueError"
    /\ ~FileMissing
    /\ ~ColumnAbsent
    /\ DateUnparseable

ExampleKey == <<Some("X"), Some(2020), Some(2)>>
ExampleInput ==
    /\ ~FileMissing
    /\ ~ColumnAbsent
    /\ Len(InputRows(file16)) = 2
    /\ Len(InputRows(file8)) = 1
    /\ \A i \in 1..2 : KeyCells(InputRows(file16)[i]) = ExampleKey
    /\ {InputRows(file16)[i].NDVI : i \in 1..2} = {V(4000, 1), V(6000, 1)}
    /\ KeyCells(InputRows(file8)[1]) = ExampleKey
    /\ InputRows(file8)[1].LST = V(3000000, 1)
    /\ IsNA(InputRows(file8)[1].LAI)

(***************************************************************************)
(* C7: end to end, a 16-day table with two rows for station "X", 2020,     *)
(* month 2 with NDVI 0.40 and 0.60 and an 8-day table with one row for the *)
(* same key with LST 300.0 and no LAI reading give exactly one output row: *)
(* "X", 2020, 2, NDVI 0.5000, LAI missing, LST 300.0000, date 2020-02-01.  *)
(***************************************************************************)
C7_EndToEnd ==
    (Done /\ ExampleInput) =>
      /\ Len(OutRows) = 1
      /\ KeyCells(OutRows[1]) = ExampleKey
      /\ OutRows[1].NDVI = V(5000, 1)
      /\ IsNA(OutRows[1].LAI)
      /\ OutRows[1].LST = V(3000000, 1)
      /\ OutRows[1].date = Some([year |-> 2020, month |-> 2, day |-> 1])

C7_Witness == Done /\ ExampleInput

RoundedRows(rows) ==
    \A i \in 1..Len(rows) : \A v \in AllVars :
        ~IsNA(rows[i][v]) => Multiple4(rows[i][v])

C8_RoundStep ==
    pc = "round" =>
      /\ Len(df_monthly') = Len(df_monthly)
      /\ RoundedRows(df_monthly')
      /\ HalfTickCells(df_monthly') = {}
      /\ round_columns(df_monthly', {}) = df_monthly'
      /\ \A i \in 1..Len(df_monthly) :
           /\ KeyCells(df_monthly'[i]) = KeyCells(df_monthly[i])
           /\ df_monthly'[i].date = df_monthly[i].date
           /\ \A v \in AllVars :
                /\ IsNA(df_monthly[i][v]) <=> IsNA(df_monthly'[i][v])
                /\ Nearest4(df_monthly'[i][v], df_monthly[i][v])

C8_WriteStep ==
    (pc = "export" /\ pc' = "print") =>
      /\ RoundedRows(Val(outFile').rows)
      /\ Val(outFile').rows = df_monthly

(***************************************************************************)
(* C8: every non-missing value of the six measured columns in the output   *)
(* is a multiple of 0.0001, rounding an already rounded table again        *)
(* changes nothing, and rounding leaves missing values missing and the key *)
(* and date columns unchanged.                                             *)
(***************************************************************************)
C8_Rounding == [][C8_RoundStep /\ C8_WriteStep]_vars

C8_Witness ==
    /\ Done
    /\ \E i \in 1..Len(OutRows) :
          /\ IsNA(OutRows[i].VCI)
          /\ ~IsNA(OutRows[i].EVI)
          /\ \E j \in 1..Len(monthly_16.rows) :
                /\ KeyCells(monthly_16.rows[j]) = KeyCells(OutRows[i])
                /\ monthly_16.rows[j].EVI # OutRows[i].EVI

ForwardPass ==
    /\ \A e \in Range(effects) : Count(e) = 1
    /\ Before("read_16", "agg_16") /\ Before("read_8", "agg_16")
    /\ Before("read_16", "agg_8") /\ Before("read_8", "agg_8")
    /\ (Happened("mkdir") /\ Happened("write")) => Pos("mkdir") < Pos("write")
    /\ Happened("write") => dirState = "dir"
    /\ Before("write", "print")
    /\ Happened("write") <=> ~IsNA(outFile)
    /\ stdout # <<>> =>
         /\ Happened("print")
         /\ ~IsNA(outFile)
         /\ stdout[Len(stdout)].arg = Val(outFile).path
    /\ Done => Happened("write") /\ stdout # <<>>

(***************************************************************************)
(* C9 as stated: the run is one forward pass in a fixed order, and         *)
(* directory creation is tied to the write, so a run that fails before the *)
(* write leaves the filesystem as it found it.                             *)
(***************************************************************************)
C9_FailureLeavesFilesystem ==
    /\ ForwardPass
    /\ (pc = "failed" /\ ~Happened("write")) =>
          (~Happened("mkdir") /\ IsNA(outFile))

(***************************************************************************)
(* C9 amended: the run is one forward pass in a fixed order; the output    *)
(* directory is created (if absent) by the first statement, before the     *)
(* inputs are read; both inputs are read before any aggregation; the       *)
(* spreadsheet is written at most once and exactly once in a completed     *)
(* run; the completion message naming the output path is emitted only      *)
(* after the write; a run that fails before the write writes no            *)
(* spreadsheet and no message, but it leaves behind the output directory   *)
(* it created.                                                             *)
(***************************************************************************)
C9_DirectoryCreatedFirst ==
    /\ ForwardPass
    /\ Happened("mkdir") => effects[1] = "mkdir"
    /\ (pc # "makedirs" /\ error # "FileExistsError") =>
          dirState \in {"dir", "readonly"}
    /\ (pc = "failed" /\ ~Happened("write")) =>
          /\ IsNA(outFile)
          /\ stdout = <<>>
          /\ Happened("mkdir") => dirState = "dir"

C9_Witness ==
    /\ pc = "failed"
    /\ error = "FileNotFoundError"
    /\ effects = <<"mkdir">>
    /\ dirState = "dir"

OwnRowsOnly ==
    \A i \in 1..Len(OutRows) :
      LET k == KeyCells(OutRows[i])
      IN /\ \A v \in Range(vars_16) :
              Nearest4(OutRows[i][v],
                       ArithMean(Recorded(Readings(InputRows(file16), k, v))))
         /\ \A v \in Range(vars_8) :
              Nearest4(OutRows[i][v],
                       ArithMean(Recorded(Readings(InputRows(file8), k, v))))

(***************************************************************************)
(* C10 as stated: the keys of the output are exactly the union of the keys *)
(* of the 16-day and the 8-day input rows, input rows with a missing name, *)
(* year or month included; the 16-day variables of an output row depend    *)
(* only on the 16-day input rows of its key, the 8-day variables only on   *)
(* the 8-day input rows of its key.                                        *)
(***************************************************************************)
C10_KeysAreUnionOfAllInputKeys ==
    Done =>
      /\ KeySet(OutRows) = KeySet(InputRows(file16)) \cup KeySet(InputRows(file8))
      /\ OwnRowsOnly

PresentKeys(rows) == {k \in KeySet(rows) : KeyPresent(k)}

(***************************************************************************)
(* C10 amended: the keys of the output are exactly the union of the keys   *)
(* of those 16-day and 8-day input rows whose name, year and month are all *)
(* present; an input row with a missing name, year or month is dropped by  *)
(* the grouping.  The 16-day variables of an output row depend only on the *)
(* 16-day input rows of its key, the 8-day variables only on the 8-day     *)
(* input rows of its key.                                                  *)
(***************************************************************************)
C10_KeysAreUnionOfPresentKeys ==
    Done =>
      /\ KeySet(OutRows) = PresentKeys(InputRows(file16))
                             \cup PresentKeys(InputRows(file8))
      /\ OwnRowsOnly

C10_Witness ==
    /\ Done
    /\ KeySet(InputRows(file16)) # PresentKeys(InputRows(file16))
    /\ KeySet(InputRows(file8)) # PresentKeys(InputRows(file8))
    /\ Len(OutRows) >= 2
====
